---- MODULE Spec2Model ----
(***************************************************************************)
(* A model of the connection pool of lib/client-pool.js: admission and     *)
(* routing (dispatch), the shared FIFO queue and its draining (onDrain),   *)
(* graceful close and destroy.                                             *)
(*                                                                         *)
(* The single-connection Client (./core/client) and the FixedQueue         *)
(* (./node/fixed-queue) are collaborators whose code is not part of        *)
(* lib/client-pool.js; they are modelled from the specification:           *)
(*   - a Client holds `size` accepted requests and is busy when it holds   *)
(*     `pipelining` of them; it completes them one at a time and emits     *)
(*     'drain' when a completion takes it from busy to not busy;           *)
(*   - Client.dispatch raises for a handler without onError;               *)
(*   - Client.close() settles once the Client holds no request;            *)
(*   - Client.destroy(err) aborts the requests the Client holds.           *)
(*                                                                         *)
(* Numbers: the constructor accepts every finite non-negative number as    *)
(* `connections`, so the limit is kept in HALVES (kConnections = 3 is the  *)
(* JavaScript value 1.5, kConnections = 0 is null).  A length n is compared *)
(* to the limit as 2 * n against kConnections.                             *)
(***************************************************************************)
EXTENDS Integers, Sequences, FiniteSets, TLC

\* ------------------------------------------------------------------ bounds
MaxRequests == 4      \* dispatch calls in one run
MaxPipelining == 2    \* largest per-Client capacity tried
MaxTickets == 2       \* distinct TLS session tickets the Clients report

VARIABLES
    kConnections,    \* this[kConnections], in halves; 0 is null
    pipelining,      \* capacity of every Client (part of the options)
    kOptionsTls,     \* this[kOptions].tls: the TLS options object
    kTLSSession,     \* this[kTLSSession]: the cached ticket, 0 when none
    baseOptionsTls,  \* history: options.tls as the constructor snapshot took it
    lastTicket,      \* history: the ticket a Client reported last, 0 when none
    kClients,        \* this[kClients]: sequence of Client records
    kQueue,          \* this[kQueue]: sequence of [opts, handler]
    kPending,        \* this[kPending]
    kNeedDrain,      \* this[kNeedDrain]
    kDestroyed,      \* this[kDestroyed]
    kClosedPromise,  \* this[kClosedPromise]: 0 is null, else a promise id
    kClosedResolve,  \* this[kClosedResolve] is set
    closeAll,        \* the Promise.all over the Clients' close(): none/pending/done
    closedSettled,   \* kClosedPromise has been fulfilled
    promiseCount,    \* promise objects the close sequence has created
    handlers,        \* handlers[r]: does request r's handler have onError
    onErrors,        \* onErrors[r]: the errors handed to request r's onError
    enqueued,        \* history: requests pushed to kQueue, in order
    handed,          \* history: <<request, client index>> of Client.dispatch accepts
    served,          \* history: requests the drain handler handed to a Client
    raised,          \* history: requests whose dispatch raised to the caller
    closeResult,     \* what the most recent close() call gave its caller
    destroyResult    \* what the most recent destroy() call did, seen at its return

vars == <<kConnections, pipelining, kOptionsTls, kTLSSession,
          baseOptionsTls, lastTicket, kClients, kQueue, kPending,
          kNeedDrain, kDestroyed, kClosedPromise, kClosedResolve, closeAll,
          closedSettled,
          promiseCount, handlers, onErrors, enqueued, handed, served,
          raised, closeResult, destroyResult>>

\* ------------------------------------------------------------- collaborators
\* A freshly constructed Client: `id` is its identity (the order of
\* construction), `session` is the ticket in the TLS options it was
\* constructed with (0 when none), `listens` whether the pool subscribed to
\* its 'session' notifications.
NewClient(id, session, listens) ==
    [id |-> id, size |-> 0, closeCalls |-> 0, destroyState |-> "none",
     session |-> session, listens |-> listens]

\* Client.busy: the Client holds as many requests as it can pipeline.
ClientBusy(c) == c.size >= pipelining

\* Client.dispatch(opts, handler) for a handler with onError: accepted.
ClientDispatch(c) == [c EXCEPT !.size = @ + 1]

\* Client.close(): asks for a graceful close; closeCalls counts the calls.
ClientClose(c) == [c EXCEPT !.closeCalls = @ + 1]

\* The completion signal of the Client's close() has fired: the Client was
\* asked to close and holds no request any more.
ClientClosed(c) == c.closeCalls > 0 /\ c.size = 0

\* Client.destroy(err): asks the Client to abort.
ClientDestroy(c) ==
    [c EXCEPT !.destroyState = IF @ = "none" THEN "requested" ELSE @]

\* ------------------------------------------------------------------ getters
\* 2 * length, to compare a length with the limit kept in halves.
Twice(n) == 2 * n

\* get busy () over given field values.
BusyOf(pending, clients) ==
    IF pending > 0 THEN TRUE
    ELSE IF kConnections # 0 /\ Twice(Len(clients)) = kConnections
         THEN \A i \in 1..Len(clients) : ClientBusy(clients[i])
         ELSE FALSE

\* pool.busy in the current state.
PoolBusy == BusyOf(kPending, kClients)

RECURSIVE SumSize(_)
SumSize(clients) ==
    IF clients = <<>> THEN 0 ELSE Head(clients).size + SumSize(Tail(clients))

\* Client.pending: requests held but not yet running (one runs at a time).
ClientPending(c) == IF c.size > 1 THEN c.size - 1 ELSE 0

RECURSIVE SumPending(_)
SumPending(clients) ==
    IF clients = <<>> THEN 0
    ELSE ClientPending(Head(clients)) + SumPending(Tail(clients))

\* get pending ()
PoolPending == kPending + SumPending(kClients)

\* get size ()
PoolSize == kPending + SumSize(kClients)

\* get destroyed ()
PoolDestroyed == kDestroyed

\* get closed ()
PoolClosed == kClosedPromise # 0

\* What a close() call gave its caller: how ("none" before any call,
\* "promise" or "callback"), the error it failed with ("none" on success),
\* the promise id it returned (0 when it returned nothing) and whether the
\* call was the one that started the close sequence.
CloseResult(how, err, ret, first) ==
    [how |-> how, err |-> err, ret |-> ret, first |-> first]

\* What a destroy() call did, observed when it returns (or raises): the error
\* it flushed with, the requests that were queued at the call, whether
\* item.handler.onError raised, and the queue length and kPending it left.
DestroyResult(err, items, threw, left, pending) ==
    [err |-> err, items |-> items, threw |-> threw, left |-> left,
     pending |-> pending]

\* ------------------------------------------------------------------- Init
\* The values of this[kConnections] tried, in halves: null (the option absent
\* or 0), 1, 1.5 and 2.
Limits == {0, 2, 3, 4}

\* A TLS options object: `present` is FALSE for an absent options.tls,
\* `reuseSessions` is FALSE when the caller set reuseSessions: false, `session`
\* is the ticket it holds (0 when none).
Tls(present, reuseSessions, session) ==
    [present |-> present, reuseSessions |-> reuseSessions, session |-> session]

\* A session the caller pins in the options: none of the tickets reported.
CallerSession == MaxTickets + 1

\* The options.tls values a pool is constructed with: absent, {}, 
\* {reuseSessions: false} and {session: <the caller's>}.
TlsOptions ==
    {Tls(FALSE, TRUE, 0), Tls(TRUE, TRUE, 0), Tls(TRUE, FALSE, 0),
     Tls(TRUE, TRUE, CallerSession)}

Init ==
    /\ kConnections \in Limits
    /\ pipelining \in 1..MaxPipelining
    /\ kOptionsTls = Tls(FALSE, TRUE, 0)
    /\ baseOptionsTls = kOptionsTls
    /\ lastTicket = 0
    /\ kTLSSession = 0
    /\ kClients = <<>>
    /\ kQueue = <<>>
    /\ kPending = 0
    /\ kNeedDrain = FALSE
    /\ kDestroyed = FALSE
    /\ kClosedPromise = 0
    /\ kClosedResolve = FALSE
    /\ closeAll = "none"
    /\ closedSettled = FALSE
    /\ promiseCount = 0
    /\ handlers = <<>>
    /\ onErrors = <<>>
    /\ enqueued = <<>>
    /\ handed = <<>>
    /\ served = <<>>
    /\ raised = {}
    /\ closeResult = CloseResult("none", "none", 0, FALSE)
    /\ destroyResult = DestroyResult("none", <<>>, FALSE, 0, 0)

\* ---------------------------------------------------------------- dispatch
\* Mutant of FindIdle: the last Client that is not busy.
FindIdleLast(clients) ==
    LET idle == {i \in 1..Len(clients) : ~ClientBusy(clients[i])}
    IN IF idle = {} THEN 0 ELSE CHOOSE i \in idle : \A j \in idle : i >= j

\* this[kClients].find(client => !client.busy): the index of the first Client
\* that is not busy, 0 when there is none.
FindIdle(clients) ==
    LET idle == {i \in 1..Len(clients) : ~ClientBusy(clients[i])}
    IN IF idle = {} THEN 0 ELSE CHOOSE i \in idle : \A j \in idle : i <= j

\* !this[kConnections] || this[kClients].length < this[kConnections]
CanCreate(clients) ==
    kConnections = 0 \/ Twice(Len(clients)) < kConnections

\* addCachedSessionToTLSOptions(pool, options): the TLS options object the
\* new Client is constructed with.  An absent options.tls becomes a new {}.
AddCachedSessionToTLSOptions(tls, cached) ==
    LET t == IF tls.present THEN tls ELSE Tls(TRUE, TRUE, 0)
    IN IF ~t.reuseSessions THEN t
       ELSE IF t.session = 0 /\ cached # 0 THEN [t EXCEPT !.session = cached]
       ELSE t

\* this[kOptions].tls after addCachedSessionToTLSOptions: `options` is a
\* shallow copy, so a present options.tls is the very object the function
\* writes the session into; an absent one is left absent.
OptionsTlsAfter(tls, cached) ==
    IF tls.present THEN AddCachedSessionToTLSOptions(tls, cached) ELSE tls

\* !options.tls || (options.tls.reuseSessions !== false && !options.tls.session),
\* on the object addCachedSessionToTLSOptions returned.
ListensForSession(t) ==
    ~t.present \/ (t.reuseSessions /\ t.session = 0)

\* Mutant of DispatchGuard: the closed check ahead of the destroyed check.
DispatchGuardClosedFirst ==
    IF kClosedPromise # 0 THEN "ClientClosedError"
    ELSE IF kDestroyed THEN "ClientDestroyedError"
    ELSE "none"

\* The error the two lifecycle checks at the head of dispatch throw, "none"
\* when the pool accepts the call.
DispatchGuard ==
    IF kDestroyed THEN "ClientDestroyedError"
    ELSE IF kClosedPromise # 0 THEN "ClientClosedError"
    ELSE "none"

\* Mutant of DispatchCatch: the error is swallowed.
DispatchCatchSilent(r, valid, err) ==
    /\ onErrors' = Append(onErrors, <<>>)
    /\ raised' = raised

\* The catch block of dispatch for request r and thrown error err: a handler
\* without onError gets InvalidArgumentError raised to the caller, any other
\* handler gets err through onError.
DispatchCatch(r, valid, err) ==
    /\ onErrors' = Append(onErrors, IF valid THEN <<err>> ELSE <<>>)
    /\ raised' = IF valid THEN raised ELSE raised \cup {r}

\* dispatch (opts, handler), for a handler that has onError (valid) or not.
Dispatch(valid) ==
    /\ Len(handlers) < MaxRequests
    /\ LET r == Len(handlers) + 1
           found == FindIdle(kClients)
           create == found = 0 /\ CanCreate(kClients)
           tls == AddCachedSessionToTLSOptions(kOptionsTls, kTLSSession)
           clients1 == IF create
                       THEN Append(kClients,
                                   NewClient(Len(kClients) + 1, tls.session,
                                             ListensForSession(tls)))
                       ELSE kClients
           client == IF found # 0 THEN found
                     ELSE IF create THEN Len(clients1) ELSE 0
       IN /\ handlers' = Append(handlers, valid)
          /\ kOptionsTls' = IF DispatchGuard = "none" /\ create
                            THEN OptionsTlsAfter(kOptionsTls, kTLSSession)
                            ELSE kOptionsTls
          /\ IF DispatchGuard # "none"
             THEN /\ DispatchCatch(r, valid, DispatchGuard)
                  /\ UNCHANGED <<kClients, kQueue, kPending, kNeedDrain,
                                 enqueued, handed>>
             ELSE IF client = 0
             THEN /\ kNeedDrain' = TRUE
                  /\ kQueue' = Append(kQueue, [opts |-> r, handler |-> valid])
                  /\ kPending' = kPending + 1
                  /\ enqueued' = Append(enqueued, r)
                  /\ onErrors' = Append(onErrors, <<>>)
                  /\ UNCHANGED <<kClients, handed, raised>>
             ELSE IF valid
             THEN LET clients2 == [clients1 EXCEPT
                                      ![client] = ClientDispatch(clients1[client])]
                  IN /\ kClients' = clients2
                     /\ handed' = Append(handed, <<r, client>>)
                     /\ kNeedDrain' =
                            IF ClientBusy(clients2[client]) /\ BusyOf(kPending, clients2)
                            THEN TRUE ELSE kNeedDrain
                     /\ onErrors' = Append(onErrors, <<>>)
                     /\ UNCHANGED <<kQueue, kPending, enqueued, raised>>
             ELSE \* client.dispatch raises; the Client made above stays in the list
                  /\ kClients' = clients1
                  /\ DispatchCatch(r, valid, "InvalidArgumentError")
                  /\ UNCHANGED <<kQueue, kPending, kNeedDrain, enqueued, handed>>
    /\ UNCHANGED <<baseOptionsTls, lastTicket>>
    /\ UNCHANGED <<kConnections, pipelining, kTLSSession, kDestroyed,
                   kClosedPromise, kClosedResolve, closeAll, closedSettled,
                   promiseCount, served, closeResult, destroyResult>>

\* ----------------------------------------------------------------- onDrain
\* Mutant of DrainLoop: the loop takes the newest item (pop) instead of the
\* oldest (shift).
RECURSIVE DrainLoopLifo(_, _, _, _)
DrainLoopLifo(q, size, pend, out) ==
    IF size >= pipelining \/ q = <<>>
    THEN [q |-> q, size |-> size, pend |-> pend, out |-> out, threw |-> FALSE]
    ELSE LET item == q[Len(q)]
             rest == SubSeq(q, 1, Len(q) - 1)
         IN IF item.handler
            THEN DrainLoopLifo(rest, size + 1, pend - 1, Append(out, item.opts))
            ELSE [q |-> rest, size |-> size, pend |-> pend - 1, out |-> out,
                  threw |-> TRUE]

\* The loop of onDrain on a Client holding `size` requests: while the Client
\* is not busy, shift an item, decrement kPending and hand the item to the
\* Client.  Client.dispatch raises for a handler without onError, which ends
\* the whole handler (threw).  `out` collects the requests handed over.
RECURSIVE DrainLoop(_, _, _, _)
DrainLoop(q, size, pend, out) ==
    IF size >= pipelining \/ q = <<>>
    THEN [q |-> q, size |-> size, pend |-> pend, out |-> out, threw |-> FALSE]
    ELSE IF Head(q).handler
         THEN DrainLoop(Tail(q), size + 1, pend - 1, Append(out, Head(q).opts))
         ELSE [q |-> Tail(q), size |-> size, pend |-> pend - 1, out |-> out,
               threw |-> TRUE]

\* pool[kNeedDrain] && !this.busy, after the loop.
EmitsDrain(needDrain, size) == needDrain /\ ~(size >= pipelining)

\* Mutant of ClosesOnDrain: the queue is not looked at.
ClosesOnDrainAnyQueue(resolve, q) == resolve

\* pool[kClosedResolve] && queue.isEmpty(), after the loop.
ClosesOnDrain(resolve, q) == resolve /\ q = <<>>

\* The pairs <<request, i>> for the requests of `out`.
RECURSIVE Pairs(_, _)
Pairs(out, i) ==
    IF out = <<>> THEN <<>> ELSE <<<<Head(out), i>>>> \o Pairs(Tail(out), i)

\* The 'drain' handler run for Client i, the Clients being `clients` when the
\* notification arrives.
OnDrain(i, clients) ==
    LET res == DrainLoop(kQueue, clients[i].size, kPending, <<>>)
        clients1 == [clients EXCEPT ![i].size = res.size]
        emit == ~res.threw /\ EmitsDrain(kNeedDrain, res.size)
        closes == ~res.threw /\ ClosesOnDrain(kClosedResolve, res.q)
    IN /\ kQueue' = res.q
       /\ kPending' = res.pend
       /\ served' = served \o res.out
       /\ handed' = handed \o Pairs(res.out, i)
       /\ kNeedDrain' = IF emit THEN FALSE ELSE kNeedDrain
       /\ kClients' = IF closes
                      THEN [j \in 1..Len(clients1) |-> ClientClose(clients1[j])]
                      ELSE clients1
       /\ closeAll' = IF closes /\ closeAll = "none" THEN "pending" ELSE closeAll

\* Client i completes one of the requests it holds; when that takes it from
\* busy to not busy it emits 'drain' and the pool's handler runs.
Complete(i) ==
    /\ i \in 1..Len(kClients)
    /\ kClients[i].size > 0
    /\ LET clients == [kClients EXCEPT ![i].size = @ - 1]
       IN IF ClientBusy(kClients[i]) /\ ~ClientBusy(clients[i])
          THEN OnDrain(i, clients)
          ELSE /\ kClients' = clients
               /\ UNCHANGED <<kQueue, kPending, served, handed, kNeedDrain, closeAll>>
    /\ UNCHANGED <<baseOptionsTls, lastTicket>>
    /\ UNCHANGED <<kConnections, pipelining, kOptionsTls, kTLSSession, kDestroyed, kClosedPromise,
                   kClosedResolve, closedSettled, promiseCount, handlers,
                   onErrors, enqueued, raised, closeResult, destroyResult>>

\* ------------------------------------------------------------------- close
\* Mutant of CloseStarts: every close() call starts a close sequence.
CloseStartsEveryCall == TRUE

\* !this[kClosedPromise]: this close() call starts the close sequence.
CloseStarts == kClosedPromise = 0

\* The promise Promise.reject(err) makes: a new object each time, kept nowhere.
FreshPromise == -1

\* c.close() on every Client.
CloseEach(clients) == [j \in 1..Len(clients) |-> ClientClose(clients[j])]

\* Mutant of CloseGuard: close() never looks at kDestroyed.
CloseGuardNone == "none"

\* The error the lifecycle check at the head of close throws, "none" when the
\* call goes on.
CloseGuard == IF kDestroyed THEN "ClientDestroyedError" ELSE "none"

\* close (cb), with a callback (cb) or returning the completion signal.
Close(cb) ==
    /\ IF CloseGuard # "none"
       THEN \* catch: cb(err), or a fresh rejected promise
            /\ closeResult' = CloseResult(IF cb THEN "callback" ELSE "promise",
                                          CloseGuard,
                                          IF cb THEN 0 ELSE FreshPromise, FALSE)
            /\ UNCHANGED <<kClients, closeAll, kClosedResolve, kClosedPromise,
                           promiseCount>>
       ELSE LET starts == CloseStarts
                direct == starts /\ kQueue = <<>>
                promise == IF starts THEN promiseCount + 2 ELSE kClosedPromise
            IN /\ kClients' = IF direct THEN CloseEach(kClients) ELSE kClients
               /\ closeAll' = IF direct THEN "pending" ELSE closeAll
               /\ kClosedResolve' = IF starts /\ ~direct THEN TRUE ELSE kClosedResolve
               /\ promiseCount' = IF starts THEN promiseCount + 2 ELSE promiseCount
               /\ kClosedPromise' = promise
               /\ closeResult' = CloseResult(IF cb THEN "callback" ELSE "promise",
                                             "none", IF cb THEN 0 ELSE promise,
                                             starts)
    /\ UNCHANGED <<baseOptionsTls, lastTicket>>
    /\ UNCHANGED <<kConnections, pipelining, kOptionsTls, kTLSSession, kQueue, kPending, kNeedDrain,
                   kDestroyed, closedSettled, handlers, onErrors, enqueued,
                   handed, served, raised, destroyResult>>

\* Every Client's close() has settled: the Promise.all resolves, which
\* fulfils the close completion signal (through kClosedResolve when the close
\* had to wait for the queue), whose then-callback sets kDestroyed.
CloseAllSettled ==
    /\ closeAll = "pending"
    /\ \A j \in 1..Len(kClients) : ClientClosed(kClients[j])
    /\ closeAll' = "done"
    /\ closedSettled' = TRUE
    /\ kDestroyed' = TRUE
    /\ UNCHANGED <<baseOptionsTls, lastTicket>>
    /\ UNCHANGED <<kConnections, pipelining, kOptionsTls, kTLSSession, kClients, kQueue, kPending,
                   kNeedDrain, kClosedPromise, kClosedResolve, promiseCount,
                   handlers, onErrors, enqueued, handed, served, raised,
                   closeResult, destroyResult>>

\* ----------------------------------------------------------------- destroy
\* if (!err) err = new ClientDestroyedError()
DestroyError(err) == IF err = "none" THEN "ClientDestroyedError" ELSE err

\* The position of the first queued item whose handler has no onError (where
\* item.handler.onError(err) raises TypeError), 0 when there is none.
FirstInvalid(q) ==
    LET bad == {j \in 1..Len(q) : ~q[j].handler}
    IN IF bad = {} THEN 0 ELSE CHOOSE j \in bad : \A k \in bad : j <= k

\* The requests of a sequence of queue items.
Opts(q) == [j \in 1..Len(q) |-> q[j].opts]

\* c.destroy(err) on every Client.
DestroyEach(clients) == [j \in 1..Len(clients) |-> ClientDestroy(clients[j])]

\* kPending after destroy's loop has shifted n items: the loop does not touch it.
PendingAfterFlush(pend, n) == pend

\* destroy (err): err "none" is a call without an error.  The loop shifts
\* items and calls each handler's onError; a handler without onError makes
\* that call raise, which ends destroy before the Clients are destroyed.
Destroy(err) ==
    /\ LET e == DestroyError(err)
           k == FirstInvalid(kQueue)
           failed == IF k = 0 THEN kQueue ELSE SubSeq(kQueue, 1, k - 1)
           left == IF k = 0 THEN <<>> ELSE SubSeq(kQueue, k + 1, Len(kQueue))
           pend == PendingAfterFlush(kPending, Len(kQueue) - Len(left))
       IN /\ kDestroyed' = TRUE
          /\ kQueue' = left
          /\ kPending' = pend
          /\ onErrors' = [r \in 1..Len(onErrors) |->
                            IF \E j \in 1..Len(failed) : failed[j].opts = r
                            THEN Append(onErrors[r], e) ELSE onErrors[r]]
          /\ kClients' = IF k = 0 THEN DestroyEach(kClients) ELSE kClients
          /\ destroyResult' = DestroyResult(e, Opts(kQueue), k # 0, Len(left), pend)
    /\ UNCHANGED <<baseOptionsTls, lastTicket>>
    /\ UNCHANGED <<kConnections, pipelining, kOptionsTls, kTLSSession, kNeedDrain, kClosedPromise,
                   kClosedResolve, closeAll, closedSettled, promiseCount,
                   handlers, enqueued, handed, served, raised, closeResult>>

\* Client i, asked to destroy, aborts the requests it holds and settles its
\* destroy().  Whether a Client that was busy emits 'drain' on its way down is
\* not fixed by the Client's contract: both outcomes are possible.
ClientAbort(i, drain) ==
    /\ i \in 1..Len(kClients)
    /\ kClients[i].destroyState = "requested"
    /\ LET clients == [kClients EXCEPT ![i].size = 0,
                                       ![i].destroyState = "settled"]
       IN IF drain /\ ClientBusy(kClients[i])
          THEN OnDrain(i, clients)
          ELSE /\ kClients' = clients
               /\ UNCHANGED <<kQueue, kPending, served, handed, kNeedDrain, closeAll>>
    /\ UNCHANGED <<baseOptionsTls, lastTicket>>
    /\ UNCHANGED <<kConnections, pipelining, kOptionsTls, kTLSSession, kDestroyed, kClosedPromise,
                   kClosedResolve, closedSettled, promiseCount, handlers,
                   onErrors, enqueued, raised, closeResult, destroyResult>>

\* ------------------------------------------------------------ TLS sessions
\* Client i reports session ticket t.  cacheClientTLSSession runs only when
\* the pool subscribed to that Client's 'session' notifications; a ticket t is
\* never falsy.
Session(i, t) ==
    /\ i \in 1..Len(kClients)
    /\ lastTicket' = t
    /\ kTLSSession' = IF kClients[i].listens THEN t ELSE kTLSSession
    /\ UNCHANGED <<kConnections, pipelining, kOptionsTls, baseOptionsTls,
                   kClients, kQueue, kPending, kNeedDrain, kDestroyed,
                   kClosedPromise, kClosedResolve, closeAll, closedSettled,
                   promiseCount, handlers, onErrors, enqueued, handed, served,
                   raised, closeResult, destroyResult>>

\* ------------------------------------------------------------ specification
\* The errors destroy is called with: none, or one supplied by the caller.
Errors == {"none", "UserError"}

\* Every operation, with handlers that have onError and handlers that do not.
\* close() and destroy() are called without arguments here: the callback and
\* the error only change what the two calls report, which ValidSpec covers.
Next ==
    \/ \E valid \in BOOLEAN : Dispatch(valid)
    \/ \E i \in 1..Len(kClients) : Complete(i)
    \/ Close(FALSE)
    \/ CloseAllSettled
    \/ Destroy("none")
    \/ \E i \in 1..Len(kClients), drain \in BOOLEAN : ClientAbort(i, drain)

Spec == Init /\ [][Next]_vars

\* The pool with TLS options and session notifications: every options.tls
\* value, and Clients that report tickets.  New Clients are what matters
\* here, so the pool is unbounded or holds two Clients, each taking one
\* request at a time, handlers have onError, and close() and destroy() are
\* called without arguments.
TlsInit ==
    \E tls \in TlsOptions, limit \in {0, 4} :
        /\ kOptionsTls = tls
        /\ baseOptionsTls = tls
        /\ lastTicket = 0
        /\ kConnections = limit
        /\ pipelining = 1
        /\ kTLSSession = 0
        /\ kClients = <<>>
        /\ kQueue = <<>>
        /\ kPending = 0
        /\ kNeedDrain = FALSE
        /\ kDestroyed = FALSE
        /\ kClosedPromise = 0
        /\ kClosedResolve = FALSE
        /\ closeAll = "none"
        /\ closedSettled = FALSE
        /\ promiseCount = 0
        /\ handlers = <<>>
        /\ onErrors = <<>>
        /\ enqueued = <<>>
        /\ handed = <<>>
        /\ served = <<>>
        /\ raised = {}
        /\ closeResult = CloseResult("none", "none", 0, FALSE)
        /\ destroyResult = DestroyResult("none", <<>>, FALSE, 0, 0)

TlsNext ==
    \/ Dispatch(TRUE)
    \/ \E i \in 1..Len(kClients) : Complete(i)
    \/ \E i \in 1..Len(kClients), t \in 1..MaxTickets : Session(i, t)
    \/ Close(FALSE)
    \/ CloseAllSettled
    \/ Destroy("none")
    \/ \E i \in 1..Len(kClients), drain \in BOOLEAN : ClientAbort(i, drain)

TlsSpec == TlsInit /\ [][TlsNext]_vars

\* The pool used by a caller whose handlers all have onError, with every way
\* of calling close() and destroy().
ValidNext ==
    \/ Dispatch(TRUE)
    \/ \E i \in 1..Len(kClients) : Complete(i)
    \/ \E cb \in BOOLEAN : Close(cb)
    \/ CloseAllSettled
    \/ \E err \in Errors : Destroy(err)
    \/ \E i \in 1..Len(kClients), drain \in BOOLEAN : ClientAbort(i, drain)

ValidSpec == Init /\ [][ValidNext]_vars

\* The scheduling the runtime and the Clients guarantee: every Client that
\* holds requests eventually completes one (and so becomes idle), every Client
\* asked to destroy eventually settles, and a Promise.all whose promises are
\* all fulfilled eventually runs its reactions.
Fairness ==
    /\ \A i \in 1..MaxRequests : WF_vars(Complete(i))
    /\ \A i \in 1..MaxRequests : WF_vars(\E drain \in BOOLEAN : ClientAbort(i, drain))
    /\ WF_vars(CloseAllSettled)

FairSpec == ValidSpec /\ Fairness

\* Every operation, handlers without onError included, under the same
\* scheduling.
FairAllSpec == Spec /\ Fairness

\* ------------------------------------------------------------------ claims
\* The lifecycle state of the specification, from the two fields that hold it.
Active == ~kDestroyed /\ kClosedPromise = 0
Closing == ~kDestroyed /\ kClosedPromise # 0
Destroyed == kDestroyed

\* The elements of a sequence.
Range(seq) == {seq[i] : i \in 1..Len(seq)}

\* The position of x in a sequence that holds it once.
Pos(seq, x) == CHOOSE i \in 1..Len(seq) : seq[i] = x

\* A step that is a dispatch call: one more handler is on record.
DispatchStep == Len(handlers') = Len(handlers) + 1

\* C1: a dispatch made while the pool is not ACTIVE changes nothing of the
\* pool (no Client made or given work, nothing queued); a handler with onError
\* gets exactly one error: the destroyed error once kDestroyed is set (also
\* when close() was called too), the closed error while only closing.
C1_NotActiveDispatchRejected ==
    [][(DispatchStep /\ ~Active) =>
          /\ UNCHANGED <<kClients, kQueue, kPending, kNeedDrain, enqueued,
                         handed, served, kDestroyed, kClosedPromise,
                         kClosedResolve, closeAll, kOptionsTls, kTLSSession>>
          /\ handlers'[Len(handlers')] =>
                /\ onErrors' = Append(onErrors,
                                      <<IF Destroyed THEN "ClientDestroyedError"
                                        ELSE "ClientClosedError">>)
                /\ raised' = raised]_vars

\* C1 witness: destroy() was called while a close was pending, and a later
\* dispatch (never queued) got the destroyed error.
C1_Witness ==
    /\ kClosedPromise # 0 /\ kDestroyed /\ ~closedSettled
    /\ \E r \in 1..Len(onErrors) :
          /\ r \notin Range(enqueued)
          /\ onErrors[r] = <<"ClientDestroyedError">>
    /\ \E r \in 1..Len(onErrors) :
          /\ r \notin Range(enqueued)
          /\ onErrors[r] = <<"ClientClosedError">>

\* C2: FIFO.  The requests the drain handler handed to Clients were all
\* enqueued, were handed over in the order they were enqueued, and every
\* request still waiting in the queue was enqueued after every one served.
C2_Fifo ==
    /\ Range(served) \subseteq Range(enqueued)
    /\ \A i, j \in 1..Len(served) :
          i < j => Pos(enqueued, served[i]) < Pos(enqueued, served[j])
    /\ \A i \in 1..Len(served), j \in 1..Len(kQueue) :
          Pos(enqueued, served[i]) < Pos(enqueued, kQueue[j].opts)

\* C2 witness: two queued requests were served, by two different Clients.
C2_Witness ==
    \E a, b \in 1..Len(handed) :
        /\ handed[a][1] \in Range(served)
        /\ handed[b][1] \in Range(served)
        /\ handed[a][1] # handed[b][1]
        /\ handed[a][2] # handed[b][2]

\* C3: when destroy(err) returns, the queue is empty, kPending (pool.pending
\* less the Clients' pending) is 0, and each handler that was queued at the
\* call has received exactly one onError, carrying err.
C3_DestroyEmptiesQueue ==
    (destroyResult.err # "none" /\ ~destroyResult.threw) =>
        /\ destroyResult.left = 0
        /\ destroyResult.pending = 0
        /\ \A r \in Range(destroyResult.items) : onErrors[r] = <<destroyResult.err>>

\* C4: kPending equals the queue's length, and so pool.busy is not true on
\* account of kPending alone when the queue is empty.
C4_PendingIsQueueLength ==
    /\ kPending = Len(kQueue)
    /\ (kQueue = <<>> /\ PoolBusy) => BusyOf(0, kClients)

\* C5: a Client's close() has been invoked only once the queue is empty, and
\* the close completion signal has fired only once every Client's own close
\* signal has.
C5_CloseWaitsForQueueAndClients ==
    /\ (\E j \in 1..Len(kClients) : kClients[j].closeCalls > 0) => kQueue = <<>>
    /\ closedSettled => \A j \in 1..Len(kClients) : ClientClosed(kClients[j])

\* C5 witness: a close that had to wait for the queue has completed, with
\* Clients to close.
C5_Witness ==
    /\ kClosedResolve /\ closedSettled
    /\ Len(kClients) > 0
    /\ Len(served) > 0

\* C6: once close() has been called on an ACTIVE pool, its completion signal
\* eventually fires.
C6_CloseCompletes == (kClosedPromise # 0) ~> closedSettled

\* C7: with a connection limit set, the Clients never outnumber it.
C7_ClientsWithinLimit ==
    kConnections # 0 => Twice(Len(kClients)) <= kConnections

\* Every Client is busy, and there are as many as the limit that is set.
AtLimitAllBusy ==
    /\ kConnections # 0
    /\ Twice(Len(kClients)) = kConnections
    /\ \A j \in 1..Len(kClients) : ClientBusy(kClients[j])

\* C8: pool.busy is true exactly when the queue is non-empty, or a limit is
\* set, that many Clients exist and every one of them is busy.
C8_BusyPredicate == PoolBusy = (kQueue # <<>> \/ AtLimitAllBusy)

\* C9: a dispatch enqueues only when a limit is set, the Clients are as many
\* as the limit and every one is busy; a pool without a limit keeps its
\* queue empty and kPending at 0.
C9_EnqueueOnlyAtCapacity ==
    [][/\ Len(enqueued') > Len(enqueued) => AtLimitAllBusy
       /\ kConnections = 0 => (kQueue' = <<>> /\ kPending' = 0)]_vars

\* A step that is no 'drain' handler run: no Client's load or destroy state
\* changes and nothing is served.
NoDrainStep ==
    /\ Len(kClients') = Len(kClients)
    /\ served' = served
    /\ \A j \in 1..Len(kClients) :
          /\ kClients'[j].size = kClients[j].size
          /\ kClients'[j].destroyState = kClients[j].destroyState

\* C10: once a close sequence has started, the completion signal is never
\* replaced and no new one is made, a close() call returns that very signal,
\* and a close() call invokes close() on no Client.
C10_CloseIdempotent ==
    [][/\ (closeResult'.how = "promise" /\ closeResult'.err = "none")
             => (closeResult'.ret = kClosedPromise' /\ closeResult'.ret # 0)
       /\ kClosedPromise # 0 =>
             /\ kClosedPromise' = kClosedPromise
             /\ promiseCount' = promiseCount
             /\ NoDrainStep =>
                   \A j \in 1..Len(kClients) :
                       kClients'[j].closeCalls = kClients[j].closeCalls]_vars

\* C10 witness: a close() call made while the close was waiting for the queue
\* returned the signal of the first call.
C10_Witness ==
    /\ Closing /\ kQueue # <<>>
    /\ closeResult.how = "promise" /\ ~closeResult.first
    /\ closeResult.ret = kClosedPromise

\* A step that is a close() call with a new outcome for its caller.
CloseStep == closeResult' # closeResult

\* C11: a close() call on a destroyed pool (after destroy(), or after an
\* earlier close completed) fails with the destroyed error: the callback gets
\* it and nothing is returned, or a fresh rejected promise is returned; no
\* Client's close() is invoked and no field of the pool changes.
C11_CloseAfterDestroyFails ==
    [][(CloseStep /\ Destroyed) =>
          /\ closeResult'.err = "ClientDestroyedError"
          /\ ~closeResult'.first
          /\ closeResult'.how = "callback" => closeResult'.ret = 0
          /\ closeResult'.how = "promise" =>
                (closeResult'.ret = FreshPromise /\ closeResult'.ret # kClosedPromise)
          /\ UNCHANGED <<kClients, kQueue, kPending, kNeedDrain, kDestroyed,
                         kClosedPromise, kClosedResolve, closeAll,
                         closedSettled, promiseCount, kOptionsTls,
                         kTLSSession>>]_vars

\* C11 witness: a close() with a callback failed after an earlier close had
\* completed.
C11_Witness ==
    /\ closedSettled
    /\ closeResult.how = "callback"
    /\ closeResult.err = "ClientDestroyedError"

\* A step that constructs a Client: the list grows by one.
ConstructStep == Len(kClients') = Len(kClients) + 1

\* C12: once a Client has reported a ticket, every Client constructed later,
\* for a caller who neither disabled session reuse nor supplied a session, is
\* constructed with the ticket reported last in its TLS options.
C12_SessionReuse ==
    [][(/\ ConstructStep
        /\ lastTicket # 0
        /\ baseOptionsTls.reuseSessions
        /\ baseOptionsTls.session = 0)
          => kClients'[Len(kClients')].session = lastTicket]_vars

\* C17: this[kOptions].tls stays what the constructor's snapshot made it.
C17_BaseOptionsImmutable == kOptionsTls = baseOptionsTls

\* The requests Clients accepted, from dispatch or from the drain handler.
HandedRequests == {handed[a][1] : a \in 1..Len(handed)}

\* C13: a dispatch whose handler has no onError raised to the caller and its
\* request was neither queued nor handed to a Client; a dispatch whose handler
\* has onError never raised.
C13_InvalidHandlerRaises ==
    \A r \in 1..Len(handlers) :
        IF handlers[r]
        THEN r \notin raised
        ELSE /\ r \in raised
             /\ r \notin Range(enqueued)
             /\ r \notin HandedRequests

\* The Clients of the current state that are not busy.
IdleClients == {j \in 1..Len(kClients) : ~ClientBusy(kClients[j])}

\* The limit leaves room for one more Client.
BelowLimit == kConnections = 0 \/ Twice(Len(kClients)) < kConnections

\* A dispatch step that handed its request to a Client.
DispatchHandsStep == DispatchStep /\ Len(handed') = Len(handed) + 1

\* C14: an accepted dispatch hands its request to the oldest Client that is
\* not busy; a Client is made only by a dispatch on an active pool whose
\* Clients are all busy and fewer than the limit, it is put at the end of the
\* list and gets the request; the Clients already in the list stay, in place.
C14_FirstFitLazyCreation ==
    [][/\ DispatchHandsStep =>
             LET c == handed'[Len(handed')][2]
             IN /\ handed'[Len(handed')][1] = Len(handlers')
                /\ IdleClients # {} =>
                      /\ c \in IdleClients
                      /\ \A j \in IdleClients : c <= j
                      /\ Len(kClients') = Len(kClients)
                /\ IdleClients = {} => c = Len(kClients) + 1
       /\ Len(kClients') >= Len(kClients)
       /\ \A j \in 1..Len(kClients) : kClients'[j].id = kClients[j].id
       /\ Len(kClients') # Len(kClients) =>
             /\ DispatchStep /\ Active
             /\ IdleClients = {} /\ BelowLimit
             /\ Len(kClients') = Len(kClients) + 1
             /\ \A j \in 1..Len(kClients) :
                   kClients'[Len(kClients')].id # kClients[j].id
             /\ handlers'[Len(handlers')] =>
                   handed' = Append(handed, <<Len(handlers'), Len(kClients')>>)]_vars

\* C14 witness: with two Clients in the list, a dispatch made after the
\* second Client got work went to the first one.
C14_Witness ==
    /\ Len(kClients) = 2
    /\ \E a, b \in 1..Len(handed) :
          /\ a < b
          /\ handed[a][2] = 2
          /\ handed[b][2] = 1
          /\ handed[b][1] \notin Range(served)

\* A step in which the drain handler popped requests: the queue got shorter
\* and no destroy() call did it.
DrainPopStep == Len(kQueue') < Len(kQueue) /\ destroyResult' = destroyResult

\* C15: a Client that was busy and has sent its drain notification is busy
\* again when the handler is done, or the queue is empty; the requests the
\* handler popped are the head of the queue, all went to that one Client,
\* which took no more than it can hold, and kPending went down by their number.
C15_DrainWorkConserving ==
    [][/\ \A i \in 1..Len(kClients) :
             (ClientBusy(kClients[i]) /\ ~ClientBusy(kClients'[i]))
                 => kQueue' = <<>>
       /\ DrainPopStep =>
             LET n == Len(kQueue) - Len(kQueue')
                 popped == Opts(SubSeq(kQueue, 1, n))
             IN /\ kQueue' = SubSeq(kQueue, n + 1, Len(kQueue))
                /\ kPending' = kPending - n
                /\ served' = served \o popped
                /\ \E c \in 1..Len(kClients) :
                      /\ handed' = handed \o Pairs(popped, c)
                      /\ kClients'[c].size <= pipelining
                      /\ ClientBusy(kClients'[c]) \/ kQueue' = <<>>
                      /\ \A j \in 1..Len(kClients) :
                            j # c => kClients'[j].size = kClients[j].size]_vars

\* A step in which the pool emits 'drain': the only place kNeedDrain is
\* cleared.
EmitStep == kNeedDrain /\ ~kNeedDrain'

\* C16: when the pool emits 'drain' the queue is empty, some Client is not
\* busy and pool.busy is false; kNeedDrain is set again only by a dispatch.
C16_DrainSignalMeansCapacity ==
    [][/\ EmitStep =>
             /\ kQueue' = <<>>
             /\ \E i \in 1..Len(kClients') : ~ClientBusy(kClients'[i])
             /\ ~PoolBusy'
       /\ (~kNeedDrain /\ kNeedDrain') => DispatchStep]_vars

\* C18: the pool invokes close() on each Client at most once, whatever close()
\* calls and drain notifications there are.
C18_CloseSequenceOnce ==
    \A j \in 1..Len(kClients) : kClients[j].closeCalls <= 1

\* How many times request r was accepted by a Client.
HandedCount(r) == Cardinality({a \in 1..Len(handed) : handed[a][1] = r})

\* How many entries of the queue hold request r.
QueuedCount(r) == Cardinality({j \in 1..Len(kQueue) : kQueue[j].opts = r})

\* C19: every request dispatched with a handler that has onError is in
\* exactly one condition: once in the queue, accepted once by one Client, or
\* failed once through its onError by the pool.
C19_ExactlyOnce ==
    \A r \in 1..Len(handlers) :
        handlers[r] => QueuedCount(r) + HandedCount(r) + Len(onErrors[r]) = 1

\* C19 witness: the three conditions side by side after a destroy(): one
\* request was handed to a Client, one was failed in the queue by destroy(),
\* and one was failed by dispatch.
C19_Witness ==
    /\ destroyResult.items # <<>>
    /\ \E r \in 1..Len(handlers) : handlers[r] /\ HandedCount(r) = 1
    /\ \E r \in Range(destroyResult.items) :
          handlers[r] /\ onErrors[r] = <<destroyResult.err>>
    /\ \E r \in 1..Len(handlers) :
          /\ handlers[r] /\ r \notin Range(enqueued)
          /\ Len(onErrors[r]) = 1

\* Request r has left the queue the way the pool promises: the drain handler
\* handed it to a Client, or the pool failed it through its onError.
Settled(r) ==
    \/ r \in Range(served)
    \/ r <= Len(onErrors) /\ onErrors[r] # <<>>

\* C20: every request placed in the queue is eventually handed to a Client
\* or failed through onError.
C20_NoQueuedRequestWaitsForever ==
    \A r \in 1..MaxRequests : (r \in Range(enqueued)) ~> Settled(r)

====
